---- MODULE Spec2Model ----
(***************************************************************************)
(* Model of the lazy streaming pipeline of python-generators-0x00:         *)
(* stream_users, stream_users_in_batches, batch_processing,                *)
(* paginate_users / lazy_paginate, stream_user_ages and                    *)
(* calculate_average_age, over one read-only user_data table.              *)
(*                                                                         *)
(* A generator is a record: its position (pc), its local variables         *)
(* (connection, cursor, offset, batch) and what it has yielded so far.     *)
(* One resumption of a generator (next()) is one step; the outcome of the  *)
(* store calls made during that step (connect, execute, fetch) is an       *)
(* input of the step.                                                      *)
(*                                                                         *)
(* The bootstrap of seed.py (create_database, create_table, insert_data)   *)
(* and the decorators retry_on_failure, transactional and cache_query have *)
(* their own variables and specifications; outside its own specification   *)
(* each part rests in its initial state.                                   *)
(***************************************************************************)
EXTENDS Integers, Sequences, FiniteSets, TLC

VARIABLES table, gen, avg, store, retry, tx, cache, limiter, orm

vars == <<table, gen, avg, store, retry, tx, cache, limiter, orm>>

\* the state outside the streaming pipeline: the bootstrap of seed.py and the
\* decorators of python-decorators-0x01
others == <<store, retry, tx, cache, limiter, orm>>

\* ---------------------------------------------------------------- bounds
MaxRows == 3      \* longest table
MaxSize == 3      \* largest batch_size / page_size
MaxExtra == 1     \* pulls made after a generator has ended
MaxCsv == 2       \* data rows of the CSV file
MaxCalls == 5     \* calls of the bootstrap functions
MaxRetries == 3   \* largest retries argument of retry_on_failure
MaxTxCalls == 3   \* calls of the transactional functions
MaxCacheCalls == 3 \* calls of fetch_users_with_cache
MaxRequests == 7  \* rate-limited requests the middleware handles
MaxTime == 61     \* latest reading of the clock, in seconds
MaxMessages == 2  \* messages created
MaxSaves == 2     \* saves of existing messages

Ages == {25, 30}
Sizes == -1 .. MaxSize

Kinds == {"rows", "batches", "filter", "pages", "ages"}
Sized == {"batches", "filter", "pages"}

\* outcome of the store calls of one step: at most one of them fails
Faults == {"none", "connect_error", "not_connected", "execute_error",
           "fetch_error", "fetch_drop"}

\* ---------------------------------------------------------------- helpers
Min(a, b) == IF a < b THEN a ELSE b

RECURSIVE Concat(_)
Concat(ss) == IF ss = <<>> THEN <<>> ELSE Head(ss) \o Concat(Tail(ss))

RECURSIVE SumAges(_)
SumAges(rows) == IF rows = <<>> THEN 0 ELSE Head(rows).age + SumAges(Tail(rows))

\* every table of at most MaxRows records; user_id is unique (primary key)
Tables == UNION {{[i \in 1..n |-> [user_id |-> i, age |-> a[i]]] : a \in [1..n -> Ages]}
                 : n \in 0..MaxRows}

\* a generator object right after the generator function was called:
\* no line of its body has run yet
NewGen_eager(kind, size) ==
    [kind |-> kind, size |-> size, pc |-> "new", ended |-> "no",
     out |-> <<>>, connection |-> "connected", cursor |-> "open",
     opens |-> 1, closes |-> 0, cursorOpens |-> 1, cursorCloses |-> 0,
     pos |-> 0, offset |-> 0, batch |-> <<>>, err |-> "none",
     fetches |-> 0, evals |-> 0, extra |-> 0]

NewGen(kind, size) ==
    [kind |-> kind, size |-> size, pc |-> "new", ended |-> "no",
     out |-> <<>>, connection |-> "None", cursor |-> "None",
     opens |-> 0, closes |-> 0, cursorOpens |-> 0, cursorCloses |-> 0,
     pos |-> 0, offset |-> 0, batch |-> <<>>, err |-> "none",
     fetches |-> 0, evals |-> 0, extra |-> 0]

\* ---------------------------------------------------------------- generator exits
Yield(g, v) == [g EXCEPT !.pc = "susp", !.out = Append(@, v)]
Return(g) == [g EXCEPT !.pc = "done", !.ended = "return"]
Raise(g) == [g EXCEPT !.pc = "done", !.ended = "raise"]

\* the finally block shared by the cursor-backed functions
finally_skip_connection(g) ==
    [g EXCEPT !.cursor = IF g.cursor # "None" THEN "closed" ELSE @,
              !.cursorCloses = IF g.cursor # "None" THEN @ + 1 ELSE @]

finally(g) ==
    [g EXCEPT !.cursor = IF g.cursor # "None" THEN "closed" ELSE @,
              !.cursorCloses = IF g.cursor # "None" THEN @ + 1 ELSE @,
              !.connection = IF g.connection = "connected" THEN "closed" ELSE @,
              !.closes = IF g.connection = "connected" THEN @ + 1 ELSE @]

\* connect() succeeded, a cursor was created and the query executed
Opened(g) ==
    [g EXCEPT !.connection = "connected", !.opens = @ + 1,
              !.cursor = "open", !.cursorOpens = @ + 1]

\* ---------------------------------------------------------------- cursor
\* cursor.fetchone(): <<row>>, or <<>> for None
fetchone_short(pos) ==
    IF pos + 1 < Len(table) THEN <<table[pos + 1]>> ELSE <<>>

fetchone(pos) ==
    IF pos < Len(table) THEN <<table[pos + 1]>> ELSE <<>>

\* cursor.fetchmany(size): the next rows, at most size of them.  For a size
\* that is not positive the driver decides: nonpos rows (0, or its arraysize 1)
fetchmany_skip(pos, size, nonpos) ==
    LET cnt == IF size > 0 THEN size ELSE nonpos
    IN  SubSeq(table, pos + 2, Min(pos + 1 + cnt, Len(table)))

fetchmany(pos, size, nonpos) ==
    LET cnt == IF size > 0 THEN size ELSE nonpos
    IN  SubSeq(table, pos + 1, Min(pos + cnt, Len(table)))

fetchall_extra(page_size, offset) ==
    SubSeq(table, offset + 1, Min(offset + page_size + 1, Len(table)))

\* SELECT ... LIMIT page_size OFFSET offset, fetchall()
fetchall(page_size, offset) ==
    SubSeq(table, offset + 1, Min(offset + page_size, Len(table)))

\* ---------------------------------------------------------------- stream_users
\* one resumption of stream_users: from the start of the body (pc = "new")
\* or from the yield (pc = "susp"), up to the next yield or the end
stream_users(g, fault) ==
    LET loop(c) ==
            IF fault = "fetch_error"
            THEN Return(finally([c EXCEPT !.err = "query", !.fetches = @ + 1]))
            ELSE IF fault = "fetch_drop"
            THEN Return(finally([c EXCEPT !.err = "transport", !.fetches = @ + 1,
                                          !.connection = "lost"]))
            ELSE LET row == fetchone(c.pos)
                     d == [c EXCEPT !.fetches = @ + 1, !.pos = @ + Len(row)]
                 IN  IF row = <<>> THEN Return(finally(d)) ELSE Yield(d, row[1])
    IN  IF g.pc = "susp" THEN loop(g)
        ELSE IF fault = "connect_error"
        THEN Return(finally([g EXCEPT !.err = "connect"]))
        ELSE IF fault = "not_connected"
        THEN Return(finally([g EXCEPT !.err = "connect", !.connection = "unconnected"]))
        ELSE IF fault = "execute_error"
        THEN Return(finally([Opened(g) EXCEPT !.err = "query"]))
        ELSE loop(Opened(g))

\* ---------------------------------------------------------------- stream_users_in_batches
stream_users_in_batches_yield_empty(g, fault, nonpos) ==
    LET loop(c) ==
            IF fault = "fetch_error"
            THEN Return(finally([c EXCEPT !.err = "query", !.fetches = @ + 1]))
            ELSE IF fault = "fetch_drop"
            THEN Return(finally([c EXCEPT !.err = "transport", !.fetches = @ + 1,
                                          !.connection = "lost"]))
            ELSE LET batch == fetchmany(c.pos, c.size, nonpos)
                     d == [c EXCEPT !.fetches = @ + 1, !.pos = @ + Len(batch)]
                 IN  IF batch = <<>> THEN Return(finally(Yield(d, batch)))
                     ELSE Yield(d, batch)
    IN  IF g.pc = "susp" THEN loop(g)
        ELSE IF fault = "connect_error"
        THEN Return(finally([g EXCEPT !.err = "connect"]))
        ELSE IF fault = "not_connected"
        THEN Return(finally([g EXCEPT !.err = "connect", !.connection = "unconnected"]))
        ELSE IF fault = "execute_error"
        THEN Return(finally([Opened(g) EXCEPT !.err = "query"]))
        ELSE loop(Opened(g))

stream_users_in_batches(g, fault, nonpos) ==
    LET loop(c) ==
            IF fault = "fetch_error"
            THEN Return(finally([c EXCEPT !.err = "query", !.fetches = @ + 1]))
            ELSE IF fault = "fetch_drop"
            THEN Return(finally([c EXCEPT !.err = "transport", !.fetches = @ + 1,
                                          !.connection = "lost"]))
            ELSE LET batch == fetchmany(c.pos, c.size, nonpos)
                     d == [c EXCEPT !.fetches = @ + 1, !.pos = @ + Len(batch)]
                 IN  IF batch = <<>> THEN Return(finally(d)) ELSE Yield(d, batch)
    IN  IF g.pc = "susp" THEN loop(g)
        ELSE IF fault = "connect_error"
        THEN Return(finally([g EXCEPT !.err = "connect"]))
        ELSE IF fault = "not_connected"
        THEN Return(finally([g EXCEPT !.err = "connect", !.connection = "unconnected"]))
        ELSE IF fault = "execute_error"
        THEN Return(finally([Opened(g) EXCEPT !.err = "query"]))
        ELSE loop(Opened(g))

\* ---------------------------------------------------------------- batch_processing
\* the filter of batch_processing
older_or_equal(user) == user.age >= 25

older(user) == user.age > 25

RECURSIVE batch_processing_rescan(_, _, _)
batch_processing_rescan(g, inp, k) ==
    LET hits == {j \in 1..Len(g.batch) : older(g.batch[j])}
    IN  IF hits # {}
        THEN LET j == CHOOSE h \in hits : \A h2 \in hits : h <= h2
             IN  Yield([g EXCEPT !.evals = @ + j,
                                 !.batch = IF j = Len(g.batch) THEN <<>>
                                           ELSE SubSeq(g.batch, j, Len(g.batch))],
                       g.batch[j])
        ELSE LET g1 == [g EXCEPT !.evals = @ + Len(g.batch), !.batch = <<>>, !.out = <<>>]
                 r == stream_users_in_batches(g1,
                          IF inp.at = k THEN inp.fault ELSE "none", inp.nonpos)
             IN  IF r.pc = "done"
                 THEN [r EXCEPT !.out = g.out]
                 ELSE batch_processing_rescan([r EXCEPT !.out = g.out, !.batch = r.out[1]],
                                              inp, k + 1)

\* an age of NULL reads as None, and None > 25 raises TypeError; -1 stands
\* for None
BadAges == {-1}

raises(user) == user.age \in BadAges

\* the comparison raises: batch_processing catches nothing, the exception
\* leaves it, and the generator its for loop iterates is dropped with the
\* frame and finalised
predicate_raised_unreleased(g) == [Raise(g) EXCEPT !.err = "predicate"]

predicate_raised(g) == [Raise(finally(g)) EXCEPT !.err = "predicate"]

\* the users of the current batch that the inner for loop has not reached yet
\* are g.batch; the generator of stream_users_in_batches it iterates is the
\* cursor part of g.  inp.at is the fetch of this resumption that inp.fault hits
RECURSIVE batch_processing(_, _, _)
batch_processing(g, inp, k) ==
    LET hits == {j \in 1..Len(g.batch) : raises(g.batch[j]) \/ older(g.batch[j])}
    IN  IF hits # {}
        THEN LET j == CHOOSE h \in hits : \A h2 \in hits : h <= h2
             IN  IF raises(g.batch[j])
                 THEN predicate_raised([g EXCEPT !.evals = @ + j, !.batch = <<>>])
                 ELSE
                 Yield([g EXCEPT !.evals = @ + j,
                                 !.batch = SubSeq(g.batch, j + 1, Len(g.batch))],
                       g.batch[j])
        ELSE LET g1 == [g EXCEPT !.evals = @ + Len(g.batch), !.batch = <<>>, !.out = <<>>]
                 r == stream_users_in_batches(g1,
                          IF inp.at = k THEN inp.fault ELSE "none", inp.nonpos)
             IN  IF r.pc = "done"
                 THEN [r EXCEPT !.out = g.out]
                 ELSE batch_processing([r EXCEPT !.out = g.out, !.batch = r.out[1]],
                                       inp, k + 1)

\* ---------------------------------------------------------------- lazy_paginate
\* paginate_users: one call.  rows is the returned page, exc says that the
\* call raised: 2-lazy_paginate.py never imports mysql, so evaluating the
\* clause "except mysql.connector.Error" raises NameError, which leaves
\* the function after its finally block
paginate_users(g, page_size, offset, fault) ==
    LET fresh == [g EXCEPT !.connection = "None", !.cursor = "None"]
    IN  IF fault \in {"connect_error", "not_connected"}
        THEN [g |-> finally([fresh EXCEPT !.err = "connect"]), rows |-> <<>>, exc |-> FALSE]
        ELSE IF fault = "execute_error" \/ page_size < 0
        THEN [g |-> finally([Opened(fresh) EXCEPT !.err = "query", !.fetches = @ + 1]),
              rows |-> <<>>, exc |-> TRUE]
        ELSE IF fault = "fetch_error"
        THEN [g |-> finally([Opened(fresh) EXCEPT !.err = "query", !.fetches = @ + 1]),
              rows |-> <<>>, exc |-> TRUE]
        ELSE IF fault = "fetch_drop"
        THEN [g |-> finally([Opened(fresh) EXCEPT !.err = "transport", !.fetches = @ + 1,
                                                  !.connection = "lost"]),
              rows |-> <<>>, exc |-> TRUE]
        ELSE [g |-> finally([Opened(fresh) EXCEPT !.fetches = @ + 1]),
              rows |-> fetchall(page_size, offset), exc |-> FALSE]

\* offset += page_size
next_offset_one(offset, page_size) == offset + 1

next_offset(offset, page_size) == offset + page_size

lazy_paginate(g, fault) ==
    LET off == IF g.pc = "susp" THEN next_offset(g.offset, g.size) ELSE 0
        r == paginate_users([g EXCEPT !.offset = off], g.size, off, fault)
    IN  IF r.exc THEN Raise(r.g)
        ELSE IF r.rows = <<>> THEN Return(r.g)
        ELSE Yield(r.g, r.rows)

\* ---------------------------------------------------------------- stream_user_ages
\* seed.connect_to_prodev returns None when it cannot connect
stream_user_ages(g, fault) ==
    LET loop(c) ==
            IF fault = "fetch_error"
            THEN Return(finally([c EXCEPT !.err = "query", !.fetches = @ + 1]))
            ELSE IF fault = "fetch_drop"
            THEN Return(finally([c EXCEPT !.err = "transport", !.fetches = @ + 1,
                                          !.connection = "lost"]))
            ELSE LET row == fetchone(c.pos)
                     d == [c EXCEPT !.fetches = @ + 1, !.pos = @ + Len(row)]
                 IN  IF row = <<>> THEN Return(finally(d)) ELSE Yield(d, row[1].age)
    IN  IF g.pc = "susp" THEN loop(g)
        ELSE IF fault \in {"connect_error", "not_connected"}
        THEN Return(finally([g EXCEPT !.err = "connect"]))
        ELSE IF fault = "execute_error"
        THEN Return(finally([Opened(g) EXCEPT !.err = "query"]))
        ELSE loop(Opened(g))

\* ---------------------------------------------------------------- the consumer
\* next(generator)
Resume(g, inp) ==
    IF g.pc = "done" THEN [g EXCEPT !.extra = @ + 1]
    ELSE IF g.kind = "rows" THEN stream_users(g, inp.fault)
    ELSE IF g.kind = "batches" THEN stream_users_in_batches(g, inp.fault, inp.nonpos)
    ELSE IF g.kind = "filter" THEN batch_processing(g, inp, 1)
    ELSE IF g.kind = "pages" THEN lazy_paginate(g, inp.fault)
    ELSE stream_user_ages(g, inp.fault)

\* generator.close(), or the generator object being dropped: GeneratorExit is
\* raised at the yield, no except clause catches it, the finally block runs.
\* lazy_paginate has no finally block and holds nothing at its yield; the
\* generator that batch_processing iterates is finalised with its frame
GenClose(g) ==
    IF g.pc = "done" THEN g
    ELSE IF g.pc = "new" THEN [g EXCEPT !.pc = "done", !.ended = "closed"]
    ELSE IF g.kind = "pages" THEN [g EXCEPT !.pc = "done", !.ended = "closed"]
    ELSE [finally(g) EXCEPT !.pc = "done", !.ended = "closed"]

\* ---------------------------------------------------------------- calculate_average_age
\* the for loop over stream_user_ages(); plan.at is the resumption that
\* plan.fault hits
RECURSIVE average_loop(_, _, _, _, _)
average_loop(g, plan, k, total_age, user_count) ==
    LET r == stream_user_ages(g, IF plan.at = k THEN plan.fault ELSE "none")
    IN  IF r.pc = "done"
        THEN [total_age |-> total_age, user_count |-> user_count, err |-> r.err]
        ELSE average_loop(r, plan, k + 1, total_age + r.out[Len(r.out)], user_count + 1)

\* what the function reports: the average total_age / user_count (num / den),
\* or that there are no users
calculate_average_age_result(plan) ==
    LET a == average_loop(NewGen("ages", 1), plan, 1, 0, 0)
    IN  [pc |-> "done", total_age |-> a.total_age, user_count |-> a.user_count,
         err |-> a.err,
         printed |-> IF a.user_count > 0
                     THEN [what |-> "average", num |-> a.total_age, den |-> a.user_count]
                     ELSE [what |-> "no_users", num |-> 0, den |-> 0]]

\* ---------------------------------------------------------------- states at rest
\* a server without database, an empty CSV file, no call made
StoreIdle ==
    [database |-> FALSE, tbl |-> FALSE, rows |-> <<>>, csv |-> <<>>,
     calls |-> 0, inserts |-> 0, last |-> TRUE, booted |-> FALSE, first |-> <<>>]

\* a wrapper of retry_on_failure that has not been called, and the wrapper
\* of with_db_connection around it: outer is its position, conn its
\* connection (0 is None), passed the connection each attempt was given
RetryNew(retries, exceptions, initial_delay, backoff_factor) ==
    [pc |-> "idle", retries |-> retries, exceptions |-> exceptions,
     initial_delay |-> initial_delay, backoff_factor |-> backoff_factor,
     i |-> 0, current_delay |-> 0, log |-> <<>>, sleeps |-> <<>>,
     result |-> 0, raised |-> [type |-> "none", attempt |-> 0],
     outer |-> "idle", conn |-> 0, opens |-> 0, closes |-> 0, passed |-> <<>>]

RetryIdle == RetryNew(0, {"OperationalError"}, 1, 2)

\* users.db as setup_database_2 leaves it, no decorated call made
TxNew(db) ==
    [db |-> db, calls |-> 0,
     last |-> [func |-> "none", outcome |-> "none", exc |-> "none", raised |-> "none",
               before |-> db, work |-> db, commits |-> 0, rollbacks |-> 0]]

TxIdle == TxNew({[id |-> 1, email |-> "alice"], [id |-> 2, email |-> "bob"]})

\* an empty lru_cache, no call made
CacheIdle ==
    [entries |-> <<>>, conns |-> 0, closes |-> 0, calls |-> <<>>, execs |-> <<>>,
     hits |-> 0]

\* the client addresses
Ips == {"10.0.0.1", "10.0.0.2"}

\* a middleware that has seen no request; request_counts holds an empty
\* queue for an address the dictionary has no key for
LimiterNew(variant) ==
    [variant |-> variant, now |-> 0, request_counts |-> [ip \in Ips |-> <<>>],
     requests |-> 0, forwarded |-> <<>>,
     last |-> [method |-> "none", path |-> "none", ip |-> "none",
               response |-> "none", at |-> 0]]

LimiterIdle == LimiterNew("middleware.py")

\* the tables of the messaging app with the users of setUp and nothing else
\* notifications and history are in the order of their creation; past[pk]
\* lists the contents message pk was stored with before its present one
OrmNew(users) ==
    [users |-> users, messages |-> {}, notifications |-> <<>>, history |-> <<>>,
     next_pk |-> 1, saves |-> 0, past |-> <<>>,
     last |-> [op |-> "none", pk |-> 0, created |-> FALSE, user |-> 0,
               old_content |-> "", content |-> "",
               before |-> [messages |-> 0, notifications |-> 0, history |-> 0]]]

OrmIdle == OrmNew({1, 2})

AvgIdle ==
    [pc |-> "idle", total_age |-> 0, user_count |-> 0, err |-> "none",
     printed |-> [what |-> "nothing", num |-> 0, den |-> 0]]

StreamIdle ==
    /\ table = <<>>
    /\ gen = [i \in {1} |-> NewGen("rows", 1)]
    /\ avg = AvgIdle

\* ---------------------------------------------------------------- state machine
Inputs == [fault : Faults, at : 1 .. MaxRows + 1, nonpos : 0..1]

\* the inputs that make a difference to a resumption of g: only
\* batch_processing fetches more than once, only a size <= 0 reads nonpos
InputsFor(g) ==
    {inp \in Inputs : /\ g.kind # "filter" => inp.at = 1
                      /\ g.size >= 1 => inp.nonpos = 0}

Init ==
    /\ table \in Tables
    /\ \E kind \in Kinds :
         \E size \in (IF kind \in Sized THEN Sizes ELSE {1}) :
            gen = [i \in {1} |-> NewGen(kind, size)]
    /\ avg = [pc |-> "idle", total_age |-> 0, user_count |-> 0, err |-> "none",
              printed |-> [what |-> "nothing", num |-> 0, den |-> 0]]
    /\ store = StoreIdle /\ retry = RetryIdle /\ tx = TxIdle /\ cache = CacheIdle
    /\ limiter = LimiterIdle /\ orm = OrmIdle

\* a cursor shared by all generators instead of one owned by each
Pull_shared(i) ==
    /\ gen[i].extra < MaxExtra
    /\ \E inp \in InputsFor(gen[i]) :
          LET r == Resume(gen[i], inp)
          IN  gen' = [j \in DOMAIN gen |->
                        IF j = i THEN r ELSE [gen[j] EXCEPT !.pos = r.pos]]
    /\ UNCHANGED <<table, avg, others>>

Pull(i) ==
    /\ gen[i].extra < MaxExtra
    /\ \E inp \in InputsFor(gen[i]) : gen' = [gen EXCEPT ![i] = Resume(gen[i], inp)]
    /\ UNCHANGED <<table, avg, others>>

Close(i) ==
    /\ gen' = [gen EXCEPT ![i] = GenClose(gen[i])]
    /\ UNCHANGED <<table, avg, others>>

calculate_average_age ==
    /\ avg.pc = "idle"
    /\ \E plan \in Inputs : avg' = calculate_average_age_result(plan)
    /\ UNCHANGED <<table, gen, others>>

Next ==
    \/ \E i \in DOMAIN gen : Pull(i)
    \/ \E i \in DOMAIN gen : Close(i)
    \/ calculate_average_age

Spec == Init /\ [][Next]_vars

\* ---------------------------------------------------------------- two streams
\* two generators created independently over the same table, pulled and
\* closed by the consumer in any interleaving
TwoStreams == {<<"rows", 1>>, <<"batches", 1>>, <<"batches", 2>>}

InitTwo ==
    /\ table \in Tables
    /\ \E a \in TwoStreams : \E b \in TwoStreams :
          gen = [i \in {1, 2} |-> IF i = 1 THEN NewGen(a[1], a[2]) ELSE NewGen(b[1], b[2])]
    /\ avg = [pc |-> "idle", total_age |-> 0, user_count |-> 0, err |-> "none",
              printed |-> [what |-> "nothing", num |-> 0, den |-> 0]]
    /\ store = StoreIdle /\ retry = RetryIdle /\ tx = TxIdle /\ cache = CacheIdle
    /\ limiter = LimiterIdle /\ orm = OrmIdle

NextTwo ==
    \/ \E i \in DOMAIN gen : Pull(i)
    \/ \E i \in DOMAIN gen : Close(i)

SpecTwo == InitTwo /\ [][NextTwo]_vars

\* ---------------------------------------------------------------- a table with NULL ages
\* create_table is CREATE TABLE IF NOT EXISTS: a user_data table that was
\* there before can hold rows without an age
NullTables ==
    UNION {{[i \in 1..n |-> [user_id |-> i, age |-> a[i]]] : a \in [1..n -> Ages \cup BadAges]}
           : n \in 0..MaxRows}

InitFilter ==
    /\ table \in NullTables
    /\ \E size \in 1 .. MaxSize : gen = [i \in {1} |-> NewGen("filter", size)]
    /\ avg = AvgIdle
    /\ store = StoreIdle /\ retry = RetryIdle /\ tx = TxIdle /\ cache = CacheIdle
    /\ limiter = LimiterIdle /\ orm = OrmIdle

SpecFilter == InitFilter /\ [][NextTwo]_vars

\* ---------------------------------------------------------------- seed.py
\* a data row of the CSV file: age_ok says that float(row[3]) succeeds
CsvRows == [user_id : 1..2, email : {"a", "b"}, age_ok : BOOLEAN]

CsvFiles == UNION {[1..n -> CsvRows] : n \in 0..MaxCsv}

\* INSERT IGNORE under PRIMARY KEY (user_id) and UNIQUE (email): a row that
\* collides with a stored one is dropped without an error
insert_append(rows, r) ==
    Append(rows, [user_id |-> r.user_id, email |-> r.email])

insert_ignore(rows, r) ==
    IF \E k \in 1..Len(rows) : rows[k].user_id = r.user_id \/ rows[k].email = r.email
    THEN rows
    ELSE Append(rows, [user_id |-> r.user_id, email |-> r.email])

\* the for loop of insert_data: a row whose age does not parse (ValueError)
\* or whose INSERT fails because the table is missing is skipped
RECURSIVE insert_rows(_, _, _)
insert_rows(rows, csv, tbl) ==
    IF csv = <<>> THEN rows
    ELSE LET r == Head(csv)
         IN  insert_rows(IF r.age_ok /\ tbl THEN insert_ignore(rows, r) ELSE rows,
                         Tail(csv), tbl)

\* CREATE DATABASE IF NOT EXISTS, over the connection of connect_db()
create_database ==
    /\ store.calls < MaxCalls
    /\ store' = [store EXCEPT !.database = TRUE, !.calls = @ + 1, !.last = TRUE]
    /\ UNCHANGED <<table, gen, avg, retry, tx, cache, limiter, orm>>

\* CREATE TABLE IF NOT EXISTS, over the connection of connect_to_prodev(),
\* which is None while the database does not exist
create_table ==
    /\ store.calls < MaxCalls
    /\ store' = IF store.database
                THEN [store EXCEPT !.tbl = TRUE, !.calls = @ + 1, !.last = TRUE]
                ELSE [store EXCEPT !.calls = @ + 1, !.last = FALSE]
    /\ UNCHANGED <<table, gen, avg, retry, tx, cache, limiter, orm>>

\* booted and first record the end of the first insert_data that found the
\* database and the table
insert_data ==
    /\ store.calls < MaxCalls
    /\ store' = IF ~store.database
                THEN [store EXCEPT !.calls = @ + 1, !.last = FALSE]
                ELSE LET rows == insert_rows(store.rows, store.csv, store.tbl)
                     IN  [store EXCEPT !.rows = rows, !.calls = @ + 1, !.last = TRUE,
                                       !.inserts = IF store.tbl THEN @ + 1 ELSE @,
                                       !.booted = @ \/ store.tbl,
                                       !.first = IF ~store.booted /\ store.tbl
                                                 THEN rows ELSE @]
    /\ UNCHANGED <<table, gen, avg, retry, tx, cache, limiter, orm>>

InitSeed ==
    /\ StreamIdle
    /\ \E csv \in CsvFiles : store = [StoreIdle EXCEPT !.csv = csv]
    /\ retry = RetryIdle /\ tx = TxIdle /\ cache = CacheIdle
    /\ limiter = LimiterIdle /\ orm = OrmIdle

NextSeed == create_database \/ create_table \/ insert_data

SpecSeed == InitSeed /\ [][NextSeed]_vars

\* ---------------------------------------------------------------- retry_on_failure
\* what one invocation of the wrapped function does: it returns ("ok") or
\* raises an exception of one of these types
ExcTypes == {"OperationalError", "ValueError", "KeyError"}

\* the exceptions tuples the decorator is used with
ExceptionTuples == {{"OperationalError"}, {"OperationalError", "ValueError"}}

\* range(retries + 1)
attempts_short(retries) == retries

attempts(retries) == retries + 1

\* the head of the for loop: the next pass, or the end of the loop, after
\* which the wrapper returns None
for_loop(w) ==
    IF w.i < attempts(w.retries) THEN [w EXCEPT !.pc = "loop"]
    ELSE [w EXCEPT !.pc = "returned", !.result = 0]

retry_pass_any(w, outcome) ==
    LET n == Len(w.log) + 1
        v == [w EXCEPT !.log = Append(@, outcome), !.passed = Append(@, w.conn)]
    IN  IF outcome = "ok" THEN [v EXCEPT !.pc = "returned", !.result = n]
        ELSE IF w.i < w.retries
             THEN for_loop([v EXCEPT !.sleeps = Append(@, w.current_delay),
                                     !.current_delay = @ * w.backoff_factor,
                                     !.i = @ + 1])
             ELSE [v EXCEPT !.pc = "raised", !.raised = [type |-> outcome, attempt |-> n]]

\* one pass of the loop body; outcome is what func(*args, **kwargs) does.
\* result is the number of the attempt whose value is returned
retry_pass(w, outcome) ==
    LET n == Len(w.log) + 1
        v == [w EXCEPT !.log = Append(@, outcome), !.passed = Append(@, w.conn)]
    IN  IF outcome = "ok" THEN [v EXCEPT !.pc = "returned", !.result = n]
        ELSE IF outcome \in w.exceptions
        THEN IF w.i < w.retries
             THEN for_loop([v EXCEPT !.sleeps = Append(@, w.current_delay),
                                     !.current_delay = @ * w.backoff_factor,
                                     !.i = @ + 1])
             ELSE [v EXCEPT !.pc = "raised", !.raised = [type |-> outcome, attempt |-> n]]
        ELSE [v EXCEPT !.pc = "raised", !.raised = [type |-> outcome, attempt |-> n]]

\* current_delay = initial_delay, and the loop starts
retry_wrapper(w) == for_loop([w EXCEPT !.current_delay = w.initial_delay, !.i = 0])

\* the wrapper is called
retry_call ==
    /\ retry.pc = "idle"
    /\ retry' = retry_wrapper(retry)
    /\ UNCHANGED <<table, gen, avg, store, tx, cache, limiter, orm>>

\* the wrapped function is invoked once more
retry_attempt ==
    /\ retry.pc = "loop"
    /\ \E outcome \in {"ok"} \cup ExcTypes : retry' = retry_pass(retry, outcome)
    /\ UNCHANGED <<table, gen, avg, store, tx, cache, limiter, orm>>

\* with_db_connection's wrapper up to the call of func: sqlite3.connect
\* returns a connection, which func is called with, or raises
with_db_connection_try(w, connected) ==
    IF connected
    THEN retry_wrapper([w EXCEPT !.outer = "in", !.conn = 1, !.opens = @ + 1])
    ELSE [w EXCEPT !.outer = "raised",
                   !.raised = [type |-> "OperationalError", attempt |-> 0]]

\* its finally block, then the outcome of func reaches the caller
with_db_connection_finally_on_return(w) ==
    [w EXCEPT !.closes = IF w.conn # 0 /\ w.pc = "returned" THEN @ + 1 ELSE @,
              !.outer = w.pc]

with_db_connection_finally(w) ==
    [w EXCEPT !.closes = IF w.conn # 0 THEN @ + 1 ELSE @,
              !.outer = w.pc]

with_db_connection_call ==
    /\ retry.pc = "idle" /\ retry.outer = "idle"
    /\ \E connected \in BOOLEAN : retry' = with_db_connection_try(retry, connected)
    /\ UNCHANGED <<table, gen, avg, store, tx, cache, limiter, orm>>

with_db_connection_exit ==
    /\ retry.outer = "in" /\ retry.pc \in {"returned", "raised"}
    /\ retry' = with_db_connection_finally(retry)
    /\ UNCHANGED <<table, gen, avg, store, tx, cache, limiter, orm>>

\* delays are in tenths of a second
InitRetry ==
    /\ StreamIdle
    /\ \E r \in -1 .. MaxRetries : \E e \in ExceptionTuples : \E d \in {1, 5} :
          retry = RetryNew(r, e, d, 2)
    /\ store = StoreIdle /\ tx = TxIdle /\ cache = CacheIdle
    /\ limiter = LimiterIdle /\ orm = OrmIdle

NextRetry == retry_call \/ retry_attempt

SpecRetry == InitRetry /\ [][NextRetry]_vars

\* fetch_users_with_retry and always_fail_query: with_db_connection over
\* retry_on_failure
NextConn == with_db_connection_call \/ retry_attempt \/ with_db_connection_exit

SpecConn == InitRetry /\ [][NextConn]_vars

\* ---------------------------------------------------------------- transactional
\* users.db is the set of its rows; a row is its id and its email (the name
\* column is under no constraint and no statement reads it)
Emails == {"alice", "bob", "david", "alice_new"}

UserIds == 1 .. 3

\* the files setup_database_2 can find and leave (CREATE TABLE IF NOT EXISTS,
\* INSERT OR IGNORE): ids and emails are unique
UserDbs ==
    {db \in SUBSET [id : UserIds, email : Emails] :
        \A r, q \in db : (r.id = q.id \/ r.email = q.email) => r = q}

\* INSERT OR IGNORE INTO users (id, name, email)
insert_or_ignore(db, r) ==
    IF \E q \in db : q.id = r.id \/ q.email = r.email THEN db ELSE db \cup {r}

setup_database_2(db) ==
    insert_or_ignore(insert_or_ignore(db, [id |-> 1, email |-> "alice"]),
                     [id |-> 2, email |-> "bob"])

MaxId(db) == IF db = {} THEN 0 ELSE CHOOSE m \in {r.id : r \in db} : \A r \in db : r.id <= m

\* UPDATE users SET email = ? WHERE id = ?, under email TEXT UNIQUE
sql_update(db, user_id, new_email) ==
    IF \E r \in db : r.id = user_id
    THEN IF \E o \in db : o.id # user_id /\ o.email = new_email
         THEN [exc |-> "IntegrityError", db |-> db]
         ELSE [exc |-> "none",
               db |-> {IF r.id = user_id THEN [r EXCEPT !.email = new_email] ELSE r : r \in db}]
    ELSE [exc |-> "none", db |-> db]

\* INSERT INTO users (name, email) VALUES (?, ?): the id is the largest id + 1
sql_insert(db, email) ==
    IF \E r \in db : r.email = email
    THEN [exc |-> "IntegrityError", db |-> db]
    ELSE [exc |-> "none", db |-> db \cup {[id |-> MaxId(db) + 1, email |-> email]}]

\* the bodies of the decorated functions: the exception they end with and
\* the rows as the open transaction sees them
update_user_email_body(db, user_id, new_email) == sql_update(db, user_id, new_email)

create_user_and_fail_body(db, email) ==
    LET r == sql_insert(db, email)
    IN  IF r.exc # "none" THEN r ELSE [exc |-> "ValueError", db |-> r.db]

\* conn.commit() and conn.rollback(): the rows of the file afterwards
commit(db, work) == work

rollback_keep(db, work) == work

rollback(db, work) == db

\* the wrapper of transactional around a body that ended with r
transactional(t, func, r) ==
    [db |-> IF r.exc = "none" THEN commit(t.db, r.db) ELSE rollback(t.db, r.db),
     calls |-> t.calls + 1,
     last |-> [func |-> func,
               outcome |-> IF r.exc = "none" THEN "return" ELSE "raise",
               exc |-> r.exc, raised |-> r.exc,
               before |-> t.db, work |-> r.db,
               commits |-> IF r.exc = "none" THEN 1 ELSE 0,
               rollbacks |-> IF r.exc = "none" THEN 0 ELSE 1]]

update_user_email ==
    /\ tx.calls < MaxTxCalls
    /\ \E user_id \in UserIds : \E new_email \in Emails :
          tx' = transactional(tx, "update_user_email",
                              update_user_email_body(tx.db, user_id, new_email))
    /\ UNCHANGED <<table, gen, avg, store, retry, cache, limiter, orm>>

create_user_and_fail ==
    /\ tx.calls < MaxTxCalls
    /\ \E email \in Emails :
          tx' = transactional(tx, "create_user_and_fail",
                              create_user_and_fail_body(tx.db, email))
    /\ UNCHANGED <<table, gen, avg, store, retry, cache, limiter, orm>>

InitTx ==
    /\ StreamIdle
    /\ \E db \in UserDbs : tx = TxNew(setup_database_2(db))
    /\ store = StoreIdle /\ retry = RetryIdle /\ cache = CacheIdle
    /\ limiter = LimiterIdle /\ orm = OrmIdle

NextTx == update_user_email \/ create_user_and_fail

SpecTx == InitTx /\ [][NextTx]_vars

\* ---------------------------------------------------------------- cache_query
\* @cache_query(maxsize=128)
maxsize == 128

\* the query strings of __main__ and the number of ? each holds
Queries == {"SELECT * FROM users", "SELECT name FROM users WHERE id = ?"}

Placeholders(query) == IF query = "SELECT * FROM users" THEN 0 ELSE 1

\* user_id: 0 stands for None
CacheUserIds == 0 .. 2

\* fetch_users_with_cache's body: `if user_id:` binds one parameter; the
\* driver rejects a wrong number of bindings
fetch_users_body(query, user_id) ==
    IF (IF user_id # 0 THEN 1 ELSE 0) = Placeholders(query) THEN "rows" ELSE "ProgrammingError"

\* the key lru_cache builds from the wrapper's arguments; the connection is
\* the first of them
cache_key(conn, query, user_id) == <<conn, query, user_id>>

InCache(entries, key) == \E k \in 1 .. Len(entries) : entries[k] = key

\* a result is stored as the most recent entry; the least recent one leaves
\* a full cache
cache_store(entries, key) ==
    LET kept == IF Len(entries) >= maxsize THEN Tail(entries) ELSE entries
    IN  Append(kept, key)

\* with_db_connection opens a connection of its own for the call, the
\* lru_cache looks the arguments up, a miss runs the wrapper and the body,
\* and the connection is closed
fetch_users_with_cache ==
    /\ Len(cache.calls) < MaxCacheCalls
    /\ \E query \in Queries : \E user_id \in CacheUserIds :
          LET conn == cache.conns + 1
              key == cache_key(conn, query, user_id)
              hit == InCache(cache.entries, key)
              res == fetch_users_body(query, user_id)
              arg == [query |-> query, user_id |-> user_id]
          IN  cache' = [entries |-> IF ~hit /\ res = "rows"
                                    THEN cache_store(cache.entries, key)
                                    ELSE cache.entries,
                        conns |-> conn,
                        closes |-> cache.closes + 1,
                        calls |-> Append(cache.calls, arg),
                        execs |-> IF hit THEN cache.execs ELSE Append(cache.execs, arg),
                        hits |-> IF hit THEN cache.hits + 1 ELSE cache.hits]
    /\ UNCHANGED <<table, gen, avg, store, retry, tx, limiter, orm>>

InitCache ==
    /\ StreamIdle
    /\ cache = CacheIdle
    /\ store = StoreIdle /\ retry = RetryIdle /\ tx = TxIdle
    /\ limiter = LimiterIdle /\ orm = OrmIdle

NextCache == fetch_users_with_cache

SpecCache == InitCache /\ [][NextCache]_vars

\* ---------------------------------------------------------------- rate limiting
\* chats/middleware.py
RATE_LIMIT_MESSAGES == 5

RATE_LIMIT_WINDOW_SECONDS == 60

\* chats/middleware/rate_limiter.py
max_requests == 5

window == 60

Variants == {"middleware.py", "rate_limiter.py"}

Methods == {"POST", "GET"}

\* the routes of the message and the conversation view sets
Paths == {"/api/messages/", "/api/conversations/"}

\* X-Forwarded-For as the list of its addresses; <<>> is no header
ForwardedFor == {<<>>, <<"10.0.0.2", "10.0.0.1">>}

Requests == [method : Methods, path : Paths, REMOTE_ADDR : Ips, HTTP_X_FORWARDED_FOR : ForwardedFor]

\* request.path.startswith('/api/messages/') and '/messages/' in request.path
startswith_api_messages(path) == path = "/api/messages/"

contains_messages(path) == path = "/api/messages/"

rate_limited(variant, request) ==
    /\ request.method = "POST"
    /\ IF variant = "middleware.py" THEN startswith_api_messages(request.path)
       ELSE contains_messages(request.path)

\* _get_client_ip in middleware.py, REMOTE_ADDR in rate_limiter.py
get_client_ip(variant, request) ==
    IF variant = "middleware.py" /\ request.HTTP_X_FORWARDED_FOR # <<>>
    THEN Head(request.HTTP_X_FORWARDED_FOR)
    ELSE request.REMOTE_ADDR

\* middleware.py: popleft while the oldest timestamp is more than the window old
RECURSIVE popleft_old(_, _)
popleft_old(q, now) ==
    IF q # <<>> /\ now - Head(q) > RATE_LIMIT_WINDOW_SECONDS
    THEN popleft_old(Tail(q), now)
    ELSE q

\* rate_limiter.py: [ts for ts in ... if now - ts < window]
RECURSIVE recent(_, _)
recent(q, now) ==
    IF q = <<>> THEN <<>>
    ELSE IF now - Head(q) < window THEN <<Head(q)>> \o recent(Tail(q), now)
    ELSE recent(Tail(q), now)

prune(variant, q, now) ==
    IF variant = "middleware.py" THEN popleft_old(q, now) ELSE recent(q, now)

\* len(...) >= RATE_LIMIT_MESSAGES, len(...) >= max_requests
limit_exceeded_late(variant, q) ==
    Len(q) > (IF variant = "middleware.py" THEN RATE_LIMIT_MESSAGES ELSE max_requests)

limit_exceeded(variant, q) ==
    Len(q) >= (IF variant = "middleware.py" THEN RATE_LIMIT_MESSAGES ELSE max_requests)

rejection(variant) == IF variant = "middleware.py" THEN "403" ELSE "429"

\* __call__ on one request at the current reading of the clock
middleware_call(l, request) ==
    LET ip == get_client_ip(l.variant, request)
        q == prune(l.variant, l.request_counts[ip], l.now)
        seen == [method |-> request.method, path |-> request.path, ip |-> ip,
                 response |-> "get_response", at |-> l.now]
    IN  IF ~rate_limited(l.variant, request)
        THEN [l EXCEPT !.last = seen]
        ELSE IF limit_exceeded(l.variant, q)
        THEN [l EXCEPT !.request_counts[ip] = q,
                       !.requests = @ + 1,
                       !.last = [seen EXCEPT !.response = rejection(l.variant)]]
        ELSE [l EXCEPT !.request_counts[ip] = Append(q, l.now),
                       !.requests = @ + 1,
                       !.forwarded = Append(@, [ip |-> ip, at |-> l.now]),
                       !.last = seen]

OffensiveLanguageMiddleware ==
    /\ limiter.requests < MaxRequests
    /\ \E request \in Requests : limiter' = middleware_call(limiter, request)
    /\ UNCHANGED <<table, gen, avg, store, retry, tx, cache, orm>>

\* time passes between two requests
Ticks == {30, 31}

tick ==
    /\ \E d \in Ticks : /\ limiter.now + d <= MaxTime
                         /\ limiter' = [limiter EXCEPT !.now = @ + d]
    /\ UNCHANGED <<table, gen, avg, store, retry, tx, cache, orm>>

InitLimiter ==
    /\ StreamIdle
    /\ \E variant \in Variants : limiter = LimiterNew(variant)
    /\ store = StoreIdle /\ retry = RetryIdle /\ tx = TxIdle /\ cache = CacheIdle
    /\ orm = OrmIdle

NextLimiter == OffensiveLanguageMiddleware \/ tick

SpecLimiter == InitLimiter /\ [][NextLimiter]_vars

\* ---------------------------------------------------------------- messaging signals
\* the users of the tests; 0 stands for NULL and for no pk
UserPks == 1 .. 2

Contents == {"Msg 1", "Msg 1 edited"}

Pks(o) == {m.pk : m \in o.messages}

Row(o, pk) == CHOOSE m \in o.messages : m.pk = pk

RECURSIVE SelectSeq2(_, _)
SelectSeq2(q, keep) ==
    IF q = <<>> THEN <<>>
    ELSE IF Head(q).message \in keep THEN <<Head(q)>> \o SelectSeq2(Tail(q), keep)
    ELSE SelectSeq2(Tail(q), keep)

\* pre_save: an instance with a pk whose row exists and holds another
\* content gets a MessageHistory entry with the row's content and is marked
\* edited; the result is the tables and the instance as save() goes on with
log_message_edit_new_content(o, instance) ==
    IF instance.pk # 0 /\ instance.pk \in Pks(o)
       /\ Row(o, instance.pk).content # instance.content
    THEN [orm |-> [o EXCEPT !.history = Append(@, [message |-> instance.pk,
                                                  old_content |-> instance.content])],
          instance |-> [instance EXCEPT !.edited = TRUE]]
    ELSE [orm |-> o, instance |-> instance]

log_message_edit(o, instance) ==
    IF instance.pk # 0 /\ instance.pk \in Pks(o)
       /\ Row(o, instance.pk).content # instance.content
    THEN [orm |-> [o EXCEPT !.history = Append(@, [message |-> instance.pk,
                                                  old_content |-> Row(o, instance.pk).content])],
          instance |-> [instance EXCEPT !.edited = TRUE]]
    ELSE [orm |-> o, instance |-> instance]

\* post_save
create_notification_on_every_save(o, instance, created) ==
    [o EXCEPT !.notifications = Append(@, [user |-> instance.receiver, message |-> instance.pk])]

create_notification_on_new_message(o, instance, created) ==
    IF created
    THEN [o EXCEPT !.notifications = Append(@, [user |-> instance.receiver, message |-> instance.pk])]
    ELSE o

\* Model.save(): pre_save, the row is updated or, without a row, inserted
\* under the next pk, post_save
Message_save(o, instance) ==
    LET pre == log_message_edit(o, instance)
        created == ~(pre.instance.pk # 0 /\ pre.instance.pk \in Pks(o))
        row == IF pre.instance.pk = 0 THEN [pre.instance EXCEPT !.pk = o.next_pk]
               ELSE pre.instance
        written == [pre.orm EXCEPT
                       !.messages = {m \in @ : m.pk # row.pk} \cup {row},
                       !.next_pk = IF row.pk >= @ THEN row.pk + 1 ELSE @]
    IN  [orm |-> create_notification_on_new_message(written, row, created),
         pk |-> row.pk, created |-> created]

Counts(o) ==
    [messages |-> Cardinality(o.messages), notifications |-> Len(o.notifications),
     history |-> Len(o.history)]

\* Message.objects.create(sender=, receiver=, content=, parent_message=); the
\* handlers compare a content with the earlier contents of the same message
\* only, so every message starts with the same one
Message_objects_create ==
    /\ orm.next_pk <= MaxMessages
    /\ \E sender \in orm.users : \E receiver \in orm.users : \E content \in {"Msg 1"} :
       \E parent \in {0} \cup Pks(orm) :
          LET instance == [pk |-> 0, sender |-> sender, receiver |-> receiver,
                           content |-> content, parent_message |-> parent,
                           edited |-> FALSE, edited_by |-> 0]
              r == Message_save(orm, instance)
          IN  orm' = [r.orm EXCEPT
                         !.past = Append(@, <<>>),
                         !.last = [op |-> "create", pk |-> r.pk, created |-> r.created,
                                   user |-> receiver, old_content |-> "",
                                   content |-> content, before |-> Counts(orm)]]
    /\ UNCHANGED <<table, gen, avg, store, retry, tx, cache, limiter>>

\* message.content = ...; message.save() on a message read from the table;
\* a change of the content records some user as its editor
Message_edit ==
    /\ orm.saves < MaxSaves
    /\ \E m \in orm.messages : \E content \in Contents :
       \E editor \in (IF content # m.content THEN orm.users ELSE {m.edited_by}) :
          LET instance == [m EXCEPT !.content = content, !.edited_by = editor]
              r == Message_save(orm, instance)
          IN  orm' = [r.orm EXCEPT
                         !.saves = @ + 1,
                         !.past[m.pk] = IF m.content # content THEN Append(@, m.content) ELSE @,
                         !.last = [op |-> "save", pk |-> r.pk, created |-> r.created,
                                   user |-> m.receiver, old_content |-> m.content,
                                   content |-> content, before |-> Counts(orm)]]
    /\ UNCHANGED <<table, gen, avg, store, retry, tx, cache, limiter>>

\* the messages on_delete=CASCADE removes with a user
cascade_sent_only(o, user) == {m.pk : m \in {x \in o.messages : x.sender = user}}

cascade(o, user) ==
    {m.pk : m \in {x \in o.messages : x.sender = user \/ x.receiver = user}}

\* post_delete of User: a print
delete_user_related_data(o, user) == o

\* user.delete(): the collector removes what CASCADE reaches and sets what
\* SET_NULL reaches to NULL
User_delete ==
    /\ \E user \in orm.users :
          LET gone == cascade(orm, user)
              kept == Pks(orm) \ gone
              deleted ==
                  [orm EXCEPT
                      !.users = @ \ {user},
                      !.messages = {[m EXCEPT
                                        !.parent_message = IF @ \in gone THEN 0 ELSE @,
                                        !.edited_by = IF @ = user THEN 0 ELSE @]
                                    : m \in {x \in @ : x.pk \in kept}},
                      !.notifications =
                          SelectSeq(SelectSeq2(@, kept), LAMBDA n : n.user # user),
                      !.history = SelectSeq2(@, kept)]
          IN  orm' = [delete_user_related_data(deleted, user) EXCEPT
                         !.last = [op |-> "delete", pk |-> 0, created |-> FALSE,
                                   user |-> user, old_content |-> "", content |-> "",
                                   before |-> Counts(orm)]]
    /\ UNCHANGED <<table, gen, avg, store, retry, tx, cache, limiter>>

InitOrm ==
    /\ StreamIdle
    /\ orm = OrmNew(UserPks)
    /\ store = StoreIdle /\ retry = RetryIdle /\ tx = TxIdle /\ cache = CacheIdle
    /\ limiter = LimiterIdle

NextOrm == Message_objects_create \/ Message_edit \/ User_delete

SpecOrm == InitOrm /\ [][NextOrm]_vars

\* ---------------------------------------------------------------- properties
Gens == DOMAIN gen

CursorBacked == {"rows", "batches", "ages"}

\* the generator ran to its end, was not abandoned, and no store call failed
Exhausted(g) == g.pc = "done" /\ g.ended = "return" /\ g.err = "none"

\* the size argument, where the function takes one, is a valid one
ValidSize(g) == g.kind \in Sized => g.size >= 1

\* everything stream_users() yields when it is iterated to its end and no
\* store call fails
RECURSIVE IterateUsers(_)
IterateUsers(g) ==
    LET r == stream_users(g, "none")
    IN  IF r.pc = "done" THEN r.out ELSE IterateUsers(r)

AllUsers == IterateUsers(NewGen("rows", 1))

\* C1: with no store error, a fully iterated stream_users() has yielded the
\* rows of the table, each once, in cursor order, and pulls made after its
\* end add nothing.
C1_StreamUsersYieldsTable ==
    \A i \in Gens :
        gen[i].kind = "rows" /\ Exhausted(gen[i]) => gen[i].out = table

C1_Witness ==
    \E i \in Gens :
        /\ gen[i].kind = "rows" /\ Exhausted(gen[i])
        /\ Len(table) >= 2 /\ gen[i].extra >= 1 /\ gen[i].out = table

\* C2: for batch_size n >= 1 the batches of stream_users_in_batches(n),
\* concatenated in order, are the sequence stream_users() yields, and every
\* batch but the last has exactly n rows.
C2_BatchesConcatenateToUsers ==
    \A i \in Gens :
        gen[i].kind = "batches" /\ gen[i].size >= 1 /\ Exhausted(gen[i]) =>
            /\ Concat(gen[i].out) = AllUsers
            /\ \A k \in 1 .. Len(gen[i].out) - 1 : Len(gen[i].out[k]) = gen[i].size

C2_Witness ==
    \E i \in Gens :
        /\ gen[i].kind = "batches" /\ gen[i].size = 2 /\ Exhausted(gen[i])
        /\ Len(table) = 3
        /\ Len(gen[i].out) = 2 /\ Len(gen[i].out[1]) = 2 /\ Len(gen[i].out[2]) = 1

\* C3: for batch_size n >= 1, batch_processing(n) yields the records of
\* stream_users() whose age is above 25, in the same order, whatever n is.
C3_FilterIsSubsequence ==
    \A i \in Gens :
        gen[i].kind = "filter" /\ gen[i].size >= 1 /\ Exhausted(gen[i]) =>
            gen[i].out = SelectSeq(AllUsers, LAMBDA u : u.age > 25)

C3_Witness ==
    \E i \in Gens :
        /\ gen[i].kind = "filter" /\ gen[i].size = 2 /\ Exhausted(gen[i])
        /\ Len(table) = 3 /\ table[1].age = 25 /\ table[2].age = 30 /\ table[3].age = 30
        /\ Len(gen[i].out) = 2

\* C4: for page_size p >= 1 over a table whose order is the same on every
\* query, the pages of lazy_paginate(p), concatenated in order, are the
\* records stream_users() yields: each row once, none missing.
C4_PagesConcatenateToUsers ==
    \A i \in Gens :
        gen[i].kind = "pages" /\ gen[i].size >= 1 /\ Exhausted(gen[i]) =>
            Concat(gen[i].out) = AllUsers

C4_Witness ==
    \E i \in Gens :
        /\ gen[i].kind = "pages" /\ gen[i].size = 2 /\ Exhausted(gen[i])
        /\ Len(table) = 3 /\ Len(gen[i].out) = 2 /\ gen[i].opens = 3

\* C5: calculate_average_age ends with the sum of all ages and the number of
\* rows, reports sum / count when count > 0, and reports 0 over an empty
\* table.  (Stated for runs in which no store call fails.)
C5_AverageOfAllAges ==
    avg.pc = "done" /\ avg.err = "none" =>
        /\ avg.total_age = SumAges(table)
        /\ avg.user_count = Len(table)
        /\ avg.user_count > 0 =>
             avg.printed = [what |-> "average", num |-> SumAges(table), den |-> Len(table)]
        /\ table = <<>> => avg.printed = [what |-> "average", num |-> 0, den |-> 1]

\* C6: when a store error hit a cursor-backed stream, the ended stream has
\* closed every connection it opened: opens = closes.
C6_ErrorLeavesNoConnection ==
    \A i \in Gens :
        /\ gen[i].kind \in CursorBacked /\ ValidSize(gen[i])
        /\ gen[i].pc = "done" /\ gen[i].err # "none"
        => gen[i].opens = gen[i].closes

\* C7: a query error during a pull is raised to the consumer; the stream
\* never ends as if it had completed.
C7_QueryErrorIsRaised ==
    \A i \in Gens :
        /\ ValidSize(gen[i])
        /\ gen[i].pc = "done" /\ gen[i].err \in {"query", "transport"}
        => gen[i].ended = "raise"

\* C8: a connection that cannot be established is surfaced to the consumer
\* as an error, distinguishable from the exhaustion of the table.
C8_ConnectFailureIsRaised ==
    \A i \in Gens :
        /\ ValidSize(gen[i])
        /\ gen[i].pc = "done" /\ gen[i].err = "connect"
        => gen[i].ended = "raise"

\* C9: with a size <= 0, stream_users_in_batches, batch_processing and
\* lazy_paginate fail with an error before any connection is opened or query
\* executed, and yield nothing.
C9_NonPositiveSizeFailsFast ==
    \A i \in Gens :
        gen[i].kind \in Sized /\ gen[i].size <= 0 =>
            /\ gen[i].opens = 0 /\ gen[i].fetches = 0 /\ gen[i].out = <<>>
            /\ gen[i].pc = "done" /\ gen[i].ended # "closed" => gen[i].ended = "raise"

\* C10: a cursor-backed stream that ends by exhaustion or because the
\* consumer closes it, after any number of pulls, has released the connection
\* and the cursor it opened exactly once each; while it is suspended it has
\* released nothing.
C10_ReleasedExactlyOnce ==
    \A i \in Gens :
        gen[i].kind \in CursorBacked /\ gen[i].err = "none" =>
            /\ gen[i].opens <= 1 /\ gen[i].cursorOpens = gen[i].opens
            /\ gen[i].pc = "done" =>
                 /\ gen[i].closes = gen[i].opens
                 /\ gen[i].cursorCloses = gen[i].cursorOpens
                 /\ gen[i].connection # "connected" /\ gen[i].cursor # "open"
            /\ gen[i].pc = "susp" =>
                 /\ gen[i].opens = 1 /\ gen[i].closes = 0 /\ gen[i].cursorCloses = 0
                 /\ gen[i].connection = "connected" /\ gen[i].cursor = "open"

C10_Witness ==
    \E i \in Gens :
        /\ gen[i].kind \in CursorBacked /\ gen[i].err = "none"
        /\ gen[i].pc = "done" /\ gen[i].ended = "closed"
        /\ gen[i].pos >= 1 /\ gen[i].pos < Len(table)
        /\ gen[i].opens = 1 /\ gen[i].closes = 1 /\ gen[i].cursorCloses = 1

\* C11: stream_users_in_batches(n), n >= 1, never yields an empty batch:
\* every yielded batch has between 1 and n records, and the first fetch that
\* returns no row ends the stream without a yield (no batch at all over an
\* empty table).
C11_NoEmptyBatch ==
    \A i \in Gens :
        gen[i].kind = "batches" /\ gen[i].size >= 1 =>
            /\ \A k \in 1 .. Len(gen[i].out) :
                  Len(gen[i].out[k]) >= 1 /\ Len(gen[i].out[k]) <= gen[i].size
            /\ Exhausted(gen[i]) => gen[i].fetches = Len(gen[i].out) + 1
            /\ Exhausted(gen[i]) /\ table = <<>> => gen[i].out = <<>>

C11_Witness ==
    \E i \in Gens :
        /\ gen[i].kind = "batches" /\ gen[i].size >= 1 /\ Exhausted(gen[i])
        /\ table = <<>> /\ gen[i].fetches = 1 /\ gen[i].out = <<>>

\* C12: in lazy_paginate(p), p >= 1, the k-th range query uses limit p and
\* offset (k-1)*p: the k-th page is rows (k-1)*p+1 .. k*p of the table, it
\* is not empty and has at most p rows; the first empty page ends the stream
\* without being yielded.
C12_PageWindows ==
    \A i \in Gens :
        gen[i].kind = "pages" /\ gen[i].size >= 1 =>
            LET p == gen[i].size
                n == Len(gen[i].out)
            IN  /\ \A k \in 1 .. n :
                      /\ gen[i].out[k] = SubSeq(table, (k - 1) * p + 1, Min(k * p, Len(table)))
                      /\ Len(gen[i].out[k]) >= 1 /\ Len(gen[i].out[k]) <= p
                /\ gen[i].pc = "susp" => gen[i].offset = (n - 1) * p
                /\ gen[i].pc = "done" /\ gen[i].ended \in {"return", "raise"} =>
                      gen[i].offset = n * p
                /\ Exhausted(gen[i]) => n * p >= Len(table) /\ gen[i].fetches = n + 1

C12_Witness ==
    \E i \in Gens :
        /\ gen[i].kind = "pages" /\ gen[i].size = 1 /\ Exhausted(gen[i])
        /\ Len(table) = 3 /\ Len(gen[i].out) = 3 /\ gen[i].offset = 3
        /\ gen[i].fetches = 4

Pulls(g) == Len(g.out) + (IF g.ended \in {"return", "raise"} THEN 1 ELSE 0)

C15_DemandDriven ==
    \A i \in Gens :
        gen[i].kind \in {"rows", "ages", "batches", "pages"} =>
            /\ gen[i].pc = "new" =>
                  gen[i].opens = 0 /\ gen[i].fetches = 0 /\ gen[i].pos = 0
                  /\ gen[i].connection = "None"
            /\ gen[i].fetches <= Pulls(gen[i])
            /\ gen[i].kind \in {"rows", "ages"} => gen[i].pos <= Pulls(gen[i])
            /\ gen[i].kind = "batches" /\ gen[i].size >= 1 =>
                  gen[i].pos <= Pulls(gen[i]) * gen[i].size
            /\ gen[i].kind = "pages" /\ gen[i].size >= 1 =>
                  Len(Concat(gen[i].out)) <= Pulls(gen[i]) * gen[i].size

C15_Witness ==
    \E i \in Gens :
        /\ gen[i].kind = "rows" /\ gen[i].pc = "susp"
        /\ Len(table) = 3 /\ Len(gen[i].out) = 2 /\ gen[i].fetches = 2 /\ gen[i].pos = 2

\* C16: batch_processing(n), n >= 1, evaluates age > 25 once per record in
\* stream order: the records evaluated are exactly those fetched and already
\* passed by the inner loop, all of the table when the stream is exhausted;
\* no record is yielded twice.
C16_PredicateOncePerRecord ==
    \A i \in Gens :
        gen[i].kind = "filter" /\ gen[i].size >= 1 =>
            /\ gen[i].evals = gen[i].pos - Len(gen[i].batch)
            /\ Exhausted(gen[i]) => gen[i].evals = Len(table)
            /\ \A a, b \in 1 .. Len(gen[i].out) :
                  a < b => gen[i].out[a].user_id < gen[i].out[b].user_id

C16_Witness ==
    \E i \in Gens :
        /\ gen[i].kind = "filter" /\ gen[i].size = 2 /\ Exhausted(gen[i])
        /\ Len(table) = 3 /\ \A k \in 1..3 : table[k].age = 30
        /\ Len(gen[i].out) = 3 /\ gen[i].evals = 3

\* C14: two independently created streams over the same table own their
\* connections and cursors: under every interleaving each one yields what it
\* yields when run alone (a prefix of it while it is running, all of it once
\* exhausted), and a pull or close of one leaves the other as it was.
RECURSIVE IterateAlone(_)
IterateAlone(g) ==
    LET r == Resume(g, [fault |-> "none", at |-> 1, nonpos |-> 0])
    IN  IF r.pc = "done" THEN r.out ELSE IterateAlone(r)

Alone(g) == IterateAlone(NewGen(g.kind, g.size))

C14_Undisturbed ==
    \A i \in Gens :
        /\ gen[i].err = "none" =>
              /\ Len(gen[i].out) <= Len(Alone(gen[i]))
              /\ gen[i].out = SubSeq(Alone(gen[i]), 1, Len(gen[i].out))
              /\ gen[i].opens <= 1 /\ gen[i].closes <= gen[i].opens
        /\ Exhausted(gen[i]) => gen[i].out = Alone(gen[i])
        /\ gen[i].pc = "susp" /\ gen[i].err = "none" => gen[i].connection = "connected"

C14_OtherUnchanged ==
    \A i \in Gens : \A j \in Gens :
        i # j /\ gen'[i] # gen[i] => gen'[j] = gen[j]

C17_BootstrapIdempotent ==
    /\ \A a, b \in 1 .. Len(store.rows) :
          a # b => /\ store.rows[a].user_id # store.rows[b].user_id
                   /\ store.rows[a].email # store.rows[b].email
    /\ store.booted =>
          /\ store.database /\ store.tbl /\ store.last
          /\ store.rows = store.first

C17_Witness ==
    /\ store.booted /\ store.inserts >= 2 /\ store.calls >= 4
    /\ Len(store.csv) = 2 /\ Len(store.rows) >= 1 /\ store.rows = store.first

\* C18: a function wrapped by retry_on_failure(retries = r) is invoked at
\* most r + 1 times per call; the first attempt that succeeds ends the call
\* with its result; when all r + 1 attempts raise a listed exception the call
\* ends by re-raising the last one.
C18_AtMostRetriesPlusOne ==
    LET n == Len(retry.log)
        r == retry.retries
    IN  /\ n <= (IF r >= 0 THEN r + 1 ELSE 0)
        /\ \A k \in 1 .. n - 1 : retry.log[k] \in retry.exceptions
        /\ Len(retry.sleeps) <= n
        /\ retry.pc = "returned" /\ r >= 0 =>
              n >= 1 /\ retry.log[n] = "ok" /\ retry.result = n
        /\ retry.pc = "loop" => n <= r /\ \A k \in 1 .. n : retry.log[k] \in retry.exceptions
        /\ retry.pc = "raised" /\ retry.log[n] \in retry.exceptions =>
              /\ n = r + 1
              /\ retry.raised = [type |-> retry.log[n], attempt |-> n]
              /\ Len(retry.sleeps) = r

C18_Witness ==
    /\ retry.pc = "raised" /\ retry.retries = 2 /\ Len(retry.log) = 3
    /\ \A k \in 1..3 : retry.log[k] = "OperationalError"
    /\ retry.raised = [type |-> "OperationalError", attempt |-> 3]

\* C19: a function wrapped by transactional commits its changes when it
\* returns normally; when it raises, the transaction is rolled back, the
\* database equals its state before the call and the same exception is
\* re-raised.
C19_CommitOrRollback ==
    /\ tx.last.outcome = "return" =>
          /\ tx.db = tx.last.work
          /\ tx.last.commits = 1 /\ tx.last.rollbacks = 0
          /\ tx.last.raised = "none"
    /\ tx.last.outcome = "raise" =>
          /\ tx.db = tx.last.before
          /\ tx.last.rollbacks = 1 /\ tx.last.commits = 0
          /\ tx.last.raised = tx.last.exc /\ tx.last.raised # "none"
          /\ Cardinality(tx.db) = Cardinality(tx.last.before)
          /\ \A r \in tx.last.before : \E q \in tx.db : q = r

C19_Witness ==
    /\ tx.last.func = "create_user_and_fail" /\ tx.last.raised = "ValueError"
    /\ Cardinality(tx.last.work) = Cardinality(tx.last.before) + 1
    /\ tx.db = tx.last.before
    /\ tx.calls >= 2

\* C20: a second call of fetch_users_with_cache with the same query string
\* and arguments returns the cached result without executing the database
\* function again: of the calls that return rows, only the first with each
\* query/argument combination executes it.
C20_SecondCallIsCached ==
    \A j, k \in 1 .. Len(cache.calls) :
        (/\ j < k
         /\ cache.calls[j] = cache.calls[k]
         /\ fetch_users_body(cache.calls[j].query, cache.calls[j].user_id) = "rows")
        => Len(cache.execs) < Len(cache.calls)

\* the requests of one address the middleware forwarded in the 60 seconds
\* that end at time t (t included, t - 60 excluded)
ForwardedInWindow(ip, t) ==
    Cardinality({k \in 1 .. Len(limiter.forwarded) :
                    /\ limiter.forwarded[k].ip = ip
                    /\ limiter.forwarded[k].at <= t
                    /\ limiter.forwarded[k].at > t - 60})

\* the same with a request exactly 60 seconds old counted
ForwardedNoLongerAgo(ip, t) ==
    Cardinality({k \in 1 .. Len(limiter.forwarded) :
                    /\ limiter.forwarded[k].ip = ip
                    /\ limiter.forwarded[k].at <= t
                    /\ limiter.forwarded[k].at >= t - 60})

\* C21: the middleware forwards at most 5 POST message requests of one
\* client address within any 60-second window; a request is rejected only
\* when it is a POST message request of an address that already has 5
\* forwarded requests in the window, and a rejected request does not reach
\* get_response.
C21_RateLimit ==
    /\ \A k \in 1 .. Len(limiter.forwarded) :
          ForwardedInWindow(limiter.forwarded[k].ip, limiter.forwarded[k].at) <= 5
    /\ limiter.last.response \in {"403", "429"} =>
          /\ limiter.last.method = "POST" /\ limiter.last.path = "/api/messages/"
          /\ ForwardedNoLongerAgo(limiter.last.ip, limiter.last.at) >= 5
    /\ limiter.last.response = "get_response"
       /\ limiter.last.method = "POST" /\ limiter.last.path = "/api/messages/" =>
          /\ Len(limiter.forwarded) >= 1
          /\ limiter.forwarded[Len(limiter.forwarded)] =
                [ip |-> limiter.last.ip, at |-> limiter.last.at]

\* a sixth request inside the window was rejected, another address and a
\* later request of the same address were forwarded
C21_Witness ==
    /\ limiter.last.response \in {"403", "429"}
    /\ limiter.last.at = 30
    /\ ForwardedInWindow(limiter.last.ip, 30) = 5
    /\ \E k \in 1 .. Len(limiter.forwarded) : limiter.forwarded[k].ip # limiter.last.ip

NotificationsOf(pk) ==
    {k \in 1 .. Len(orm.notifications) : orm.notifications[k].message = pk}

\* C22: creating a Message creates exactly one Notification, addressed to
\* the message's receiver and linked to the message; saving an existing
\* Message creates no further Notification.
C22_OneNotificationPerMessage ==
    /\ \A m \in orm.messages :
          /\ Cardinality(NotificationsOf(m.pk)) = 1
          /\ \A k \in NotificationsOf(m.pk) : orm.notifications[k].user = m.receiver
    /\ orm.last.op = "create" =>
          /\ orm.last.created
          /\ Len(orm.notifications) = orm.last.before.notifications + 1
          /\ orm.notifications[Len(orm.notifications)] =
                [user |-> orm.last.user, message |-> orm.last.pk]
    /\ orm.last.op = "save" =>
          ~orm.last.created /\ Len(orm.notifications) = orm.last.before.notifications

C22_Witness ==
    /\ orm.last.op = "save" /\ orm.last.content # orm.last.old_content
    /\ Cardinality(orm.messages) = 2
    /\ Len(orm.notifications) = 2

RECURSIVE OldContents(_, _)
OldContents(q, pk) ==
    IF q = <<>> THEN <<>>
    ELSE IF Head(q).message = pk THEN <<Head(q).old_content>> \o OldContents(Tail(q), pk)
    ELSE OldContents(Tail(q), pk)

\* C23: saving an existing Message with changed content creates exactly one
\* MessageHistory entry holding the previous content and leaves the stored
\* message edited; the history entries of a message hold, in order, every
\* earlier content of it.
C23_HistoryHoldsEarlierContents ==
    /\ \A m \in orm.messages :
          /\ OldContents(orm.history, m.pk) = orm.past[m.pk]
          /\ orm.past[m.pk] # <<>> => m.edited
    /\ orm.last.op = "save" /\ orm.last.content # orm.last.old_content =>
          /\ Len(orm.history) = orm.last.before.history + 1
          /\ orm.history[Len(orm.history)] =
                [message |-> orm.last.pk, old_content |-> orm.last.old_content]
          /\ Row(orm, orm.last.pk).edited
          /\ Row(orm, orm.last.pk).content = orm.last.content
    /\ orm.last.op = "save" /\ orm.last.content = orm.last.old_content =>
          Len(orm.history) = orm.last.before.history

C23_Witness ==
    \E m \in orm.messages :
        /\ OldContents(orm.history, m.pk) = <<"Msg 1", "Msg 1 edited">>
        /\ m.content = "Msg 1" /\ m.edited

\* C24: after a User is deleted no Message sent or received by that user
\* remains, and no Notification or MessageHistory that referred to the user
\* or to such a message; no row refers to a row that is gone.
C24_NoDanglingReference ==
    /\ \A m \in orm.messages :
          /\ m.sender \in orm.users /\ m.receiver \in orm.users
          /\ m.parent_message \in {0} \cup Pks(orm)
          /\ m.edited_by \in {0} \cup orm.users
    /\ \A k \in 1 .. Len(orm.notifications) :
          /\ orm.notifications[k].user \in orm.users
          /\ orm.notifications[k].message \in Pks(orm)
    /\ \A k \in 1 .. Len(orm.history) : orm.history[k].message \in Pks(orm)
    /\ orm.last.op = "delete" =>
          /\ orm.last.user \notin orm.users
          /\ \A m \in orm.messages : m.sender # orm.last.user /\ m.receiver # orm.last.user

\* a user with sent and received messages, an edited one among them, was
\* deleted, and a message of the other user is still there
C24_Witness ==
    /\ orm.last.op = "delete"
    /\ orm.last.before.messages = 2 /\ orm.last.before.history >= 1
    /\ Cardinality(orm.messages) = 1
    /\ Len(orm.notifications) = 1

\* a finished stream stays finished: a further pull fetches nothing, opens
\* nothing and yields nothing
C25_Terminal ==
    \A i \in Gens :
        gen[i].pc = "done" =>
            /\ gen'[i].pc = "done" /\ gen'[i].ended = gen[i].ended
            /\ gen'[i].out = gen[i].out
            /\ gen'[i].fetches = gen[i].fetches /\ gen'[i].opens = gen[i].opens

\* a finished stream, exhausted or failed, holds no connection and no cursor
C25_Released ==
    \A i \in Gens :
        /\ gen[i].kind \in {"rows", "batches", "pages"} /\ ValidSize(gen[i])
        /\ gen[i].pc = "done"
        => /\ gen[i].closes = gen[i].opens
           /\ gen[i].cursorCloses = gen[i].cursorOpens
           /\ gen[i].connection # "connected" /\ gen[i].cursor # "open"

\* C25: each stream goes NotStarted -> Active -> {Exhausted, Failed}; the two
\* last states are terminal (no further fetch, query or element), and in
\* both its connection and its cursor are released.
C25_StreamStateMachine == []C25_Released /\ [][C25_Terminal]_vars

\* the first record of the table the predicate raises on; 0 without one
FirstBad ==
    IF \E k \in 1 .. Len(table) : raises(table[k])
    THEN CHOOSE k \in 1 .. Len(table) :
             raises(table[k]) /\ \A j \in 1 .. k - 1 : ~raises(table[j])
    ELSE 0

\* C26: when the predicate raises on a record inside batch_processing the
\* exception reaches the consumer, the records yielded before it are the
\* matching ones that precede the record, nothing is yielded after it, and
\* the connection of the stream_users_in_batches generator is released.
C26_PredicateErrorPropagates ==
    \A i \in Gens :
        gen[i].kind = "filter" =>
            /\ gen[i].err = "predicate" =>
                  /\ gen[i].pc = "done" /\ gen[i].ended = "raise"
                  /\ FirstBad >= 1 /\ gen[i].evals = FirstBad
                  /\ gen[i].out = SelectSeq(SubSeq(table, 1, FirstBad - 1), older)
                  /\ gen[i].opens = 1 /\ gen[i].closes = 1
                  /\ gen[i].cursorOpens = 1 /\ gen[i].cursorCloses = 1
                  /\ gen[i].connection = "closed" /\ gen[i].cursor = "closed"
            /\ Exhausted(gen[i]) => FirstBad = 0
            /\ FirstBad >= 1 => gen[i].evals <= FirstBad

\* the predicate raised on the third record after one record was yielded,
\* and the consumer pulled once more
C26_Witness ==
    \E i \in Gens :
        /\ gen[i].kind = "filter" /\ gen[i].err = "predicate" /\ gen[i].extra = 1
        /\ FirstBad = 3 /\ Len(gen[i].out) = 1 /\ gen[i].size = 2
        /\ gen[i].fetches = 2 /\ gen[i].closes = 1

\* C27: an exception whose type is not in the exceptions tuple is re-raised
\* on the attempt where it occurs, whichever that is, with no sleep and no
\* further invocation of the wrapped function.
C27_UnlistedIsRaisedAtOnce ==
    LET n == Len(retry.log)
    IN  /\ \A k \in 1 .. n :
              retry.log[k] \notin retry.exceptions \cup {"ok"} =>
                  /\ k = n
                  /\ retry.pc = "raised"
                  /\ retry.raised = [type |-> retry.log[k], attempt |-> k]
                  /\ Len(retry.sleeps) = k - 1
        /\ retry.pc = "raised" => n >= 1 /\ retry.raised.attempt = n

C27_Witness ==
    /\ retry.pc = "raised" /\ retry.retries = 3 /\ retry.exceptions = {"OperationalError"}
    /\ retry.log = <<"OperationalError", "ValueError">>
    /\ retry.raised = [type |-> "ValueError", attempt |-> 2]
    /\ Len(retry.sleeps) = 1

\* C28: with with_db_connection over retry_on_failure every attempt of a call
\* gets the same connection, one connection is opened per call, and it is
\* closed exactly once after the final outcome (success, retries exhausted
\* or an unlisted error), which reaches the caller after the close.
C28_OneConnectionPerCall ==
    /\ retry.opens <= 1 /\ retry.closes <= retry.opens
    /\ Len(retry.passed) = Len(retry.log)
    /\ \A k \in 1 .. Len(retry.passed) : retry.passed[k] = retry.conn /\ retry.conn # 0
    /\ retry.outer = "in" => retry.opens = 1 /\ retry.closes = 0
    /\ retry.outer \in {"returned", "raised"} /\ retry.conn # 0 =>
          /\ retry.opens = 1 /\ retry.closes = 1
          /\ retry.outer = retry.pc
          /\ retry.outer = "raised" =>
                retry.raised = [type |-> retry.log[Len(retry.log)],
                                attempt |-> Len(retry.log)]

\* the retries were exhausted and the caller got the error, the connection
\* closed
C28_Witness ==
    /\ retry.outer = "raised" /\ retry.retries = 2
    /\ retry.log = <<"OperationalError", "OperationalError", "OperationalError">>
    /\ retry.passed = <<1, 1, 1>>
    /\ retry.opens = 1 /\ retry.closes = 1

====
